---- MODULE Spec2Model ----
(***************************************************************************)
(* Enterprise AI News Aggregator (function_app.py).                        *)
(*                                                                         *)
(* Text is a sequence of one-character strings.  Numbers that can carry a  *)
(* fractional half (relevance scores, the minimum score) are kept in       *)
(* HALVES: the integer 2*x stands for the Python number x, so 0.5 * w is w *)
(* and w itself is 2*w.  Keyword weights are whole numbers.                *)
(***************************************************************************)
EXTENDS Integers, Sequences, FiniteSets, TLC

VARIABLES
    SETTINGS,            \* CONFIG["settings"]
    DAILY_SOURCES,       \* CONFIG["daily_sources"], in declaration order
    WEEKLY_SOURCES,      \* CONFIG["weekly_sources"], in declaration order
    RELEVANCE_KEYWORDS,  \* keyword -> weight, in configuration order
    CATEGORIES,          \* category -> fragments, in configuration order
    pc,                  \* position of the running call
    caller,              \* "timer": AINewsDigest; "direct": fetch_all_sources alone
    include_weekly,      \* argument of fetch_all_sources
    src_index,           \* position of the source loop that runs
    all_articles,        \* fetch_all_sources: all_articles
    fetch_log,           \* per fetch_feed call: what happened (history)
    environ,             \* os.environ["MIN_RELEVANCE_SCORE"] as read at line 188
    min_score,           \* fetch_all_sources: min_score, in halves
    filtered,            \* fetch_all_sources: relevant as built at line 191
    relevant,            \* fetch_all_sources: relevant as returned
    html,                \* result of generate_html_digest
    text,                \* result of generate_text_digest
    send_calls,          \* number of calls of send_email
    sent,                \* messages handed to the SMTP server
    error_log,           \* logging.error records
    propagated,          \* the exception that left the entry point
    keywords,            \* argument of a direct call of categorize
    category,            \* result of a direct call of categorize
    called               \* the direct calls made so far

vars == << SETTINGS, DAILY_SOURCES, WEEKLY_SOURCES, RELEVANCE_KEYWORDS, CATEGORIES,
           pc, caller, include_weekly, src_index, all_articles, fetch_log, environ,
           min_score, filtered, relevant, html, text, send_calls, sent, error_log,
           propagated, keywords, category, called >>

configVars == << SETTINGS, DAILY_SOURCES, WEEKLY_SOURCES, RELEVANCE_KEYWORDS, CATEGORIES >>

runVars == << pc, caller, include_weekly, src_index, fetch_log, environ, min_score,
              filtered, send_calls, sent, error_log, propagated >>

(***************************************************************************)
(* Bounds of the model.                                                    *)
(***************************************************************************)
MaxTitleLen == 1
MaxSummaryLen == 1
MaxKeywords == 2
MaxEntries == 2
MaxDigest == 3

(***************************************************************************)
(* Text.                                                                   *)
(***************************************************************************)
RECURSIVE SeqsUpTo(_, _)
SeqsUpTo(S, n) ==
    IF n = 0 THEN { << >> }
    ELSE LET shorter == SeqsUpTo(S, n - 1)
         IN  shorter \cup { Append(s, c) : s \in shorter, c \in S }

Range(s) == { s[i] : i \in DOMAIN s }

\* str.lower() on one character and on a string
LowerChar(c) ==
    CASE c = "A" -> "a"
      [] c = "B" -> "b"
      [] OTHER -> c

Lower(s) == [ i \in DOMAIN s |-> LowerChar(s[i]) ]

\* Python's  needle in hay  for strings
StrIn(needle, hay) ==
    \E i \in 0 .. (Len(hay) - Len(needle)) :
        SubSeq(hay, i + 1, i + Len(needle)) = needle

\* Python's  s[:n]  for any integer n
SlicePrefix(s, n) ==
    IF n >= 0
    THEN SubSeq(s, 1, IF n < Len(s) THEN n ELSE Len(s))
    ELSE SubSeq(s, 1, IF Len(s) + n > 0 THEN Len(s) + n ELSE 0)

\* re.sub(r'<[^>]+>', '', s): leftmost matches, each ending at the first '>'
RECURSIVE FirstClose(_, _)
FirstClose(s, i) ==
    IF i > Len(s) THEN 0
    ELSE IF s[i] = ">" THEN i
    ELSE FirstClose(s, i + 1)

RECURSIVE StripTagsFrom(_, _)
StripTagsFrom(s, i) ==
    IF i > Len(s) THEN << >>
    ELSE IF s[i] = "<" /\ i < Len(s) /\ s[i + 1] # ">" /\ FirstClose(s, i + 1) # 0
         THEN StripTagsFrom(s, FirstClose(s, i + 1) + 1)
         ELSE << s[i] >> \o StripTagsFrom(s, i + 1)

StripTags(s) == StripTagsFrom(s, 1)

(***************************************************************************)
(* Configuration.                                                          *)
(***************************************************************************)
None == [ present |-> FALSE, value |-> 0 ]
Some(v) == [ present |-> TRUE, value |-> v ]

\* dict.get(key, default) on an optional value
Get(opt, default) == IF opt.present THEN opt.value ELSE default

COMMENT_KEY == << "_" >>

\* RELEVANCE_KEYWORDS = {k: v for k, v in ... if k != "_comment"}
StripComment(raw) == SelectSeq(raw, LAMBDA e : e.keyword # COMMENT_KEY)

\* Article(title, link, source, published, summary) with the dataclass defaults
Article(title, link, source, published, summary) ==
    [ title |-> title, link |-> link, source |-> source, published |-> published,
      summary |-> summary, relevance_score |-> 0, matched_keywords |-> << >>,
      category |-> "General" ]

(***************************************************************************)
(* categorize                                                              *)
(***************************************************************************)
\* sum(1 for kw in keywords if any(ck in kw.lower() for ck in category_keywords))
CategoryScore(kws, category_keywords) ==
    Cardinality({ i \in DOMAIN kws :
                    \E j \in DOMAIN category_keywords :
                        StrIn(category_keywords[j], Lower(kws[i])) })

\* max(category_scores, key=category_scores.get): the first key with the largest value
RECURSIVE MaxKey(_, _, _)
MaxKey(scores, i, best) ==
    IF i > Len(scores) THEN best
    ELSE MaxKey(scores, i + 1, IF scores[i].score > scores[best].score THEN i ELSE best)

categorize_in(kws, cats) ==
    LET category_scores ==
            [ i \in DOMAIN cats |->
                [ category |-> cats[i].category,
                  score |-> CategoryScore(kws, cats[i].keywords) ] ]
    IN  IF category_scores # << >>
        THEN LET best_category == MaxKey(category_scores, 1, 1)
             IN  IF category_scores[best_category].score > 0
                 THEN category_scores[best_category].category
                 ELSE "General"
        ELSE "General"

categorize(kws) == categorize_in(kws, CATEGORIES)

(***************************************************************************)
(* score_relevance                                                         *)
(***************************************************************************)
\* f"{article.title} {article.summary}"
FullText(article) == article.title \o << " " >> \o article.summary

\* a plausible slip: "keyword in text" for "keyword.lower() in text"
RECURSIVE TextLoopNoLower(_, _, _, _)
TextLoopNoLower(cfg, i, txt, acc) ==
    IF i > Len(cfg) THEN acc
    ELSE IF StrIn(cfg[i].keyword, txt)
         THEN TextLoopNoLower(cfg, i + 1, txt,
                              [ score |-> acc.score + 2 * cfg[i].weight,
                                matched |-> Append(acc.matched, cfg[i].keyword) ])
         ELSE TextLoopNoLower(cfg, i + 1, txt, acc)

\* first loop: score += weight, matched.append(keyword)
RECURSIVE TextLoop(_, _, _, _)
TextLoop(cfg, i, txt, acc) ==
    IF i > Len(cfg) THEN acc
    ELSE IF StrIn(Lower(cfg[i].keyword), txt)
         THEN TextLoop(cfg, i + 1, txt,
                       [ score |-> acc.score + 2 * cfg[i].weight,
                         matched |-> Append(acc.matched, cfg[i].keyword) ])
         ELSE TextLoop(cfg, i + 1, txt, acc)

\* second loop: score += weight * 0.5
RECURSIVE TitleLoop(_, _, _, _)
TitleLoop(cfg, i, title_lower, score) ==
    IF i > Len(cfg) THEN score
    ELSE IF StrIn(Lower(cfg[i].keyword), title_lower)
         THEN TitleLoop(cfg, i + 1, title_lower, score + cfg[i].weight)
         ELSE TitleLoop(cfg, i + 1, title_lower, score)

\* a plausible slip: "score = weight" for "score += weight" in the first loop
RECURSIVE TextLoopAssign(_, _, _, _)
TextLoopAssign(cfg, i, txt, acc) ==
    IF i > Len(cfg) THEN acc
    ELSE IF StrIn(Lower(cfg[i].keyword), txt)
         THEN TextLoopAssign(cfg, i + 1, txt,
                             [ score |-> 2 * cfg[i].weight,
                               matched |-> Append(acc.matched, cfg[i].keyword) ])
         ELSE TextLoopAssign(cfg, i + 1, txt, acc)

score_relevance_assign(article) ==
    LET first == TextLoopAssign(RELEVANCE_KEYWORDS, 1, Lower(FullText(article)),
                                [ score |-> 0, matched |-> << >> ])
        score == TitleLoop(RELEVANCE_KEYWORDS, 1, Lower(article.title), first.score)
    IN  [ article EXCEPT !.relevance_score = score,
                         !.matched_keywords = first.matched,
                         !.category = categorize(first.matched) ]

score_relevance(article) ==
    LET first == TextLoop(RELEVANCE_KEYWORDS, 1, Lower(FullText(article)),
                          [ score |-> 0, matched |-> << >> ])
        score == TitleLoop(RELEVANCE_KEYWORDS, 1, Lower(article.title), first.score)
    IN  [ article EXCEPT !.relevance_score = score,
                         !.matched_keywords = first.matched,
                         !.category = categorize(first.matched) ]

(***************************************************************************)
(* fetch_feed                                                              *)
(***************************************************************************)
NoText == [ present |-> FALSE, value |-> << >> ]

DEFAULT_MAX_PER_SOURCE == 10
DEFAULT_LOOKBACK_HOURS == 24
WEEKLY_LOOKBACK_HOURS == 168
SUMMARY_LIMIT == 500

\* published_parsed if set, else updated_parsed if set, else None; a date is
\* kept as its age in hours at datetime.now()
PubDate(e) ==
    IF e.published_parsed.present THEN e.published_parsed
    ELSE IF e.updated_parsed.present THEN e.updated_parsed
    ELSE None

\* summary if the entry has one, else description if it has one, else ""
EntrySummary(e) ==
    IF e.summary.present THEN SlicePrefix(StripTags(e.summary.value), SUMMARY_LIMIT)
    ELSE IF e.description.present
         THEN SlicePrefix(StripTags(e.description.value), SUMMARY_LIMIT)
         ELSE << >>

\* the for loop of fetch_feed; entry.title of an entry without a title raises,
\* which ends the loop with the articles appended so far
RECURSIVE EntryLoop(_, _, _, _, _)
EntryLoop(entries, i, source_name, lookback_hours, articles) ==
    IF i > Len(entries) THEN [ articles |-> articles, raised |-> FALSE ]
    ELSE LET e == entries[i]
             pub_date == PubDate(e)
         IN  IF pub_date.present /\ pub_date.value > lookback_hours
             THEN EntryLoop(entries, i + 1, source_name, lookback_hours, articles)
             ELSE IF ~ e.has_title
                  THEN [ articles |-> articles, raised |-> TRUE ]
                  ELSE EntryLoop(entries, i + 1, source_name, lookback_hours,
                                 Append(articles,
                                        Article(e.title, e.link, source_name, pub_date,
                                                EntrySummary(e))))

\* fetch_feed(source_name, feed_url, lookback_hours); feed is what the network
\* and feedparser give for feed_url: ok is FALSE when requests.get, raise_for_status
\* or the parse raises
fetch_feed(source_name, feed, lookback_hours) ==
    LET max_per_source == Get(SETTINGS.max_articles_per_source, DEFAULT_MAX_PER_SOURCE)
    IN  IF ~ feed.ok
        THEN [ articles |-> << >>, raised |-> TRUE ]
        ELSE EntryLoop(SlicePrefix(feed.entries, max_per_source), 1, source_name,
                       lookback_hours, << >>)

(***************************************************************************)
(* fetch_all_sources: scoring, filter, sort, cap                           *)
(***************************************************************************)
DEFAULT_MIN_RELEVANCE_SCORE == 5
DEFAULT_MAX_ARTICLES_TOTAL == 25

Digits == { "0", "1", "2", "3", "4", "5", "6", "7", "8", "9" }

DigitValue(c) ==
    CASE c = "0" -> 0 [] c = "1" -> 1 [] c = "2" -> 2 [] c = "3" -> 3 [] c = "4" -> 4
      [] c = "5" -> 5 [] c = "6" -> 6 [] c = "7" -> 7 [] c = "8" -> 8 [] c = "9" -> 9

RECURSIVE DigitsValue(_, _)
DigitsValue(s, acc) ==
    IF s = << >> THEN acc ELSE DigitsValue(Tail(s), 10 * acc + DigitValue(Head(s)))

\* int(s) for a string: an optional sign and one or more digits, anything else
\* raises ValueError; the value is in halves
IntOfStr(s) ==
    LET body == IF s # << >> /\ Head(s) \in { "-", "+" } THEN Tail(s) ELSE s
        sign == IF s # << >> /\ Head(s) = "-" THEN -1 ELSE 1
    IN  IF body # << >> /\ \A i \in DOMAIN body : body[i] \in Digits
        THEN [ ok |-> TRUE, value |-> 2 * sign * DigitsValue(body, 0) ]
        ELSE [ ok |-> FALSE, value |-> 0 ]

\* int(x) for a number x in halves: truncation toward zero
IntOfNumber(h) ==
    IF h >= 0 THEN [ ok |-> TRUE, value |-> 2 * (h \div 2) ]
    ELSE [ ok |-> TRUE, value |-> -(2 * ((-h) \div 2)) ]

\* int(os.environ.get("MIN_RELEVANCE_SCORE", SETTINGS.get("min_relevance_score", 5)))
MinScore(override) ==
    IF override.present THEN IntOfStr(override.value)
    ELSE IntOfNumber(Get(SETTINGS.min_relevance_score, 2 * DEFAULT_MIN_RELEVANCE_SCORE))

\* one insertion of a stable descending sort: after every element at least as large
InsertDesc(sorted, a) ==
    LET k == Cardinality({ i \in DOMAIN sorted : sorted[i].relevance_score >= a.relevance_score })
    IN  SubSeq(sorted, 1, k) \o << a >> \o SubSeq(sorted, k + 1, Len(sorted))

\* one insertion of an ascending sort that is stable too
InsertAsc(sorted, a) ==
    LET k == Cardinality({ i \in DOMAIN sorted : sorted[i].relevance_score <= a.relevance_score })
    IN  SubSeq(sorted, 1, k) \o << a >> \o SubSeq(sorted, k + 1, Len(sorted))

Reverse(s) == [ i \in DOMAIN s |-> s[Len(s) + 1 - i] ]

RECURSIVE SortLoopAsc(_, _, _)
SortLoopAsc(s, i, sorted) ==
    IF i > Len(s) THEN sorted ELSE SortLoopAsc(s, i + 1, InsertAsc(sorted, s[i]))

\* a plausible slip: sort ascending, then reverse, which reverses equal scores
SortAscendingReversed(s) == Reverse(SortLoopAsc(s, 1, << >>))

RECURSIVE SortLoop(_, _, _)
SortLoop(s, i, sorted) ==
    IF i > Len(s) THEN sorted ELSE SortLoop(s, i + 1, InsertDesc(sorted, s[i]))

\* relevant.sort(key=lambda x: x.relevance_score, reverse=True)
SortByScoreDesc(s) == SortLoop(s, 1, << >>)

\* a plausible slip: relevant[:max_articles + 1]
CapOffByOne(s, max_articles) == SlicePrefix(s, max_articles + 1)

\* relevant[:max_articles]
Cap(s, max_articles) == SlicePrefix(s, max_articles)

(***************************************************************************)
(* generate_html_digest, generate_text_digest                              *)
(***************************************************************************)
category_order ==
    << "Higher Ed Specific", "Strategy & Leadership", "Policy & Governance",
       "Enterprise Tech", "AI/ML Developments", "General" >>

\* one piece of a digest, in output order
Item(kind, a) == [ kind |-> kind, category |-> a.category, source |-> a.source, link |-> a.link ]
Fixed(kind) == [ kind |-> kind, category |-> "", source |-> "", link |-> 0 ]
Heading(kind, c) == [ kind |-> kind, category |-> c, source |-> "", link |-> 0 ]
Counted(kind, n) == [ kind |-> kind, category |-> "", source |-> "", link |-> n ]

GroupIndex(by_category, c) ==
    IF \E g \in DOMAIN by_category : by_category[g].category = c
    THEN CHOOSE g \in DOMAIN by_category : by_category[g].category = c
    ELSE 0

\* a plausible slip: by_category[c].insert(0, article)
RECURSIVE GroupLoopPrepend(_, _, _)
GroupLoopPrepend(articles, i, by_category) ==
    IF i > Len(articles) THEN by_category
    ELSE LET c == articles[i].category
             with == IF GroupIndex(by_category, c) = 0
                     THEN Append(by_category, [ category |-> c, items |-> << >> ])
                     ELSE by_category
             g == GroupIndex(with, c)
         IN  GroupLoopPrepend(articles, i + 1,
                       [ with EXCEPT ![g].items = << articles[i] >> \o @ ])

GroupByCategoryPrepend(articles) == GroupLoopPrepend(articles, 1, << >>)

\* the loop that fills by_category, a dict in first-seen order
RECURSIVE GroupLoop(_, _, _)
GroupLoop(articles, i, by_category) ==
    IF i > Len(articles) THEN by_category
    ELSE LET c == articles[i].category
             with == IF GroupIndex(by_category, c) = 0
                     THEN Append(by_category, [ category |-> c, items |-> << >> ])
                     ELSE by_category
             g == GroupIndex(with, c)
         IN  GroupLoop(articles, i + 1,
                       [ with EXCEPT ![g].items = Append(@, articles[i]) ])

GroupByCategory(articles) == GroupLoop(articles, 1, << >>)

\* the loop over category_order: the groups of by_category that are rendered
RECURSIVE CategoryLoop(_, _)
CategoryLoop(by_category, i) ==
    IF i > Len(category_order) THEN << >>
    ELSE LET g == GroupIndex(by_category, category_order[i])
         IN  (IF g # 0 THEN << by_category[g] >> ELSE << >>)
             \o CategoryLoop(by_category, i + 1)

RECURSIVE Flatten(_)
Flatten(ss) == IF ss = << >> THEN << >> ELSE Head(ss) \o Flatten(Tail(ss))

\* <h2> and one <div class="article"> per article
HtmlSection(group) ==
    << Heading("h2", group.category) >>
    \o [ i \in DOMAIN group.items |-> Item("article", group.items[i]) ]

\* the heading, the dashes and three lines per article
TextSection(group) ==
    << Heading("h2", group.category), Fixed("dashes") >>
    \o Flatten([ i \in DOMAIN group.items |->
                   << Item("article", group.items[i]), Item("meta", group.items[i]),
                      Item("link", group.items[i]) >> ])

generate_html_digest(articles) ==
    LET by_category == GroupByCategory(articles)
    IN  << Counted("head", Len(articles)) >>
        \o (IF articles = << >>
            THEN << Fixed("no-articles") >>
            ELSE LET groups == CategoryLoop(by_category, 1)
                 IN  Flatten([ g \in DOMAIN groups |-> HtmlSection(groups[g]) ]))
        \o << Fixed("footer") >>

generate_text_digest(articles) ==
    LET by_category == GroupByCategory(articles)
        groups == CategoryLoop(by_category, 1)
    IN  << Fixed("rule"), Fixed("title"), Fixed("date"), Counted("count", Len(articles)),
           Fixed("rule"), Fixed("blank") >>
        \o Flatten([ g \in DOMAIN groups |-> TextSection(groups[g]) ])
        \o << Fixed("rule") >>

(***************************************************************************)
(* Inputs.                                                                 *)
(***************************************************************************)
TextChars == { "a", "A", "b" }
Titles == SeqsUpTo(TextChars, MaxTitleLen)
Summaries == SeqsUpTo(TextChars, MaxSummaryLen)

KW(k, w) == [ keyword |-> k, weight |-> w ]

\* CONFIG["relevance_keywords"] as written in config.json
RelevanceConfigs ==
    { << KW(<< "a" >>, 3), KW(<< "B" >>, 1) >>,
      << KW(COMMENT_KEY, 0), KW(<< "a", " ", "b" >>, 2), KW(<< "a" >>, 1) >>,
      << KW(<< "b" >>, -2), KW(<< "a" >>, 1) >>,
      << KW(<< "A" >>, 2), KW(<< "b" >>, 2), KW(<< "a", "b" >>, 0) >>,
      << >> }

CAT(c, frags) == [ category |-> c, keywords |-> frags ]

\* CONFIG["categories"] as written in config.json
CategoryConfigs ==
    { << CAT("Policy & Governance", << << "a" >> >>),
         CAT("Enterprise Tech", << << "b" >> >>) >>,
      << CAT("Enterprise Tech", << << "b" >> >>),
         CAT("Policy & Governance", << << "a" >> >>) >>,
      << CAT("Higher Ed Specific", << << "A" >> >>),
         CAT("AI/ML Developments", << << "a", " ", "b" >> >>) >>,
      << CAT("Research", << << "a", "b" >>, << " " >> >>),
         CAT("Strategy & Leadership", << >>),
         CAT("Enterprise Tech", << << "b" >> >>) >>,
      << >> }

DefaultCategories ==
    << CAT("Policy & Governance", << << "a" >> >>),
       CAT("Enterprise Tech", << << "b" >> >>) >>

KeywordPool == { << "a" >>, << "B" >>, << "a", " ", "b" >>, << "A", "b" >> }

NoSettings ==
    [ lookback_hours |-> None, max_articles_per_source |-> None,
      min_relevance_score |-> None, max_articles_total |-> None ]

NoException == [ type |-> "none", from |-> "none" ]

\* no call of the entry point is in progress
RunIdle ==
    /\ pc = "idle"
    /\ caller = "none"
    /\ include_weekly = FALSE
    /\ src_index = 0
    /\ fetch_log = << >>
    /\ environ = NoText
    /\ min_score = 0
    /\ filtered = << >>
    /\ send_calls = 0
    /\ sent = << >>
    /\ error_log = << >>
    /\ propagated = NoException

(***************************************************************************)
(* score_relevance called on two articles.                                 *)
(***************************************************************************)
InitScore ==
    /\ SETTINGS = NoSettings
    /\ DAILY_SOURCES = << >>
    /\ WEEKLY_SOURCES = << >>
    /\ RELEVANCE_KEYWORDS \in { StripComment(raw) : raw \in RelevanceConfigs }
    /\ CATEGORIES = DefaultCategories
    /\ all_articles \in
         { << Article(t1, 1, "source1", None, s1),
              Article(t2, 2, "source2", None, s2) >> :
             t1 \in Titles, s1 \in Summaries, t2 \in Titles, s2 \in Summaries }
    /\ RunIdle
    /\ relevant = << >>
    /\ html = << >>
    /\ text = << >>
    /\ keywords = << >>
    /\ category = ""
    /\ called = { }

CallScoreRelevance(i) ==
    /\ i \notin called
    /\ all_articles' = [ all_articles EXCEPT ![i] = score_relevance(all_articles[i]) ]
    /\ called' = called \cup { i }
    /\ UNCHANGED << configVars, runVars, relevant, html, text, keywords, category >>

NextScore == \E i \in DOMAIN all_articles : CallScoreRelevance(i)

SpecScore == InitScore /\ [][NextScore]_vars

(***************************************************************************)
(* categorize called on a list of matched keywords.                        *)
(***************************************************************************)
InitCategorize ==
    /\ SETTINGS = NoSettings
    /\ DAILY_SOURCES = << >>
    /\ WEEKLY_SOURCES = << >>
    /\ RELEVANCE_KEYWORDS = << >>
    /\ CATEGORIES \in CategoryConfigs
    /\ all_articles = << >>
    /\ RunIdle
    /\ relevant = << >>
    /\ html = << >>
    /\ text = << >>
    /\ keywords \in SeqsUpTo(KeywordPool, MaxKeywords)
    /\ category = ""
    /\ called = { }

CallCategorize ==
    /\ called = { }
    /\ category' = categorize(keywords)
    /\ called' = { "categorize" }
    /\ UNCHANGED << configVars, runVars, all_articles, relevant, html, text, keywords >>

NextCategorize == CallCategorize

SpecCategorize == InitCategorize /\ [][NextCategorize]_vars

(***************************************************************************)
(* One run: AINewsDigest on the timer, or fetch_all_sources called alone.  *)
(***************************************************************************)
ENTRY(has_title, title, summary, description, published_parsed, updated_parsed) ==
    [ has_title |-> has_title, title |-> title, link |-> 0, summary |-> summary,
      description |-> description, published_parsed |-> published_parsed,
      updated_parsed |-> updated_parsed ]

\* what a feed can hold: an undated entry, a fresh entry whose summary carries
\* a tag, an entry updated 100 hours ago, an entry without a title
EntryKinds ==
    { ENTRY(TRUE, << "A" >>, NoText, NoText, None, None),
      ENTRY(TRUE, << "b" >>, Some(<< "<", "b", ">", "a" >>), NoText, Some(1), None),
      ENTRY(TRUE, << "a" >>, NoText, Some(<< "a" >>), None, Some(100)),
      ENTRY(FALSE, << >>, NoText, NoText, None, None) }

\* the entries of a feed carry their position as their link
Feeds ==
    { [ ok |-> FALSE, entries |-> << >> ] }
    \cup { [ ok |-> TRUE, entries |-> [ i \in DOMAIN ks |-> [ ks[i] EXCEPT !.link = i ] ] ] :
             ks \in SeqsUpTo(EntryKinds, MaxEntries) }

SET(lookback, per_source, min_halves, max_total) ==
    [ lookback_hours |-> lookback, max_articles_per_source |-> per_source,
      min_relevance_score |-> min_halves, max_articles_total |-> max_total ]

\* CONFIG["settings"]; min_relevance_score is written in halves: 5 is 2.5
SettingsConfigs ==
    { NoSettings,
      SET(None, Some(1), Some(4), Some(1)),
      SET(None, None, Some(5), Some(2)),
      SET(Some(200), None, Some(0), Some(-1)),
      SET(None, None, Some(6), Some(0)) }

SourceConfigs ==
    { [ daily |-> << "d1", "d2" >>, weekly |-> << >> ],
      [ daily |-> << "d1" >>, weekly |-> << "w1" >> ] }

\* os.environ.get("MIN_RELEVANCE_SCORE")
EnvOverrides == { NoText, Some(<< "3" >>), Some(<< "2", ".", "5" >>), Some(<< "0" >>) }

PipelineRelevance == << KW(<< "a" >>, 2) >>

Init ==
    /\ SETTINGS \in SettingsConfigs
    /\ \E sc \in SourceConfigs : DAILY_SOURCES = sc.daily /\ WEEKLY_SOURCES = sc.weekly
    /\ RELEVANCE_KEYWORDS = PipelineRelevance
    /\ CATEGORIES = DefaultCategories
    /\ caller \in { "timer", "direct" }
    /\ include_weekly \in (IF caller = "timer" THEN { FALSE } ELSE BOOLEAN)
    /\ pc = "daily"
    /\ src_index = 1
    /\ all_articles = << >>
    /\ fetch_log = << >>
    /\ environ = NoText
    /\ min_score = 0
    /\ filtered = << >>
    /\ relevant = << >>
    /\ html = << >>
    /\ text = << >>
    /\ send_calls = 0
    /\ sent = << >>
    /\ error_log = << >>
    /\ propagated = NoException
    /\ keywords = << >>
    /\ category = ""
    /\ called = { }

\* where the run continues when every source of the running loop is fetched
AfterSource(loop, i) ==
    IF loop = "daily" /\ i < Len(DAILY_SOURCES) THEN "daily"
    ELSE IF loop = "weekly" /\ i < Len(WEEKLY_SOURCES) THEN "weekly"
    ELSE IF loop = "daily" /\ include_weekly /\ WEEKLY_SOURCES # << >> THEN "weekly"
    ELSE "score"

Fetched(source_name, feed, lookback_hours) ==
    LET got == fetch_feed(source_name, feed, lookback_hours)
    IN  /\ all_articles' = all_articles \o got.articles
        /\ fetch_log' = Append(fetch_log, [ source |-> source_name, failed |-> got.raised,
                                            count |-> Len(got.articles) ])
        /\ pc' = AfterSource(pc, src_index)
        /\ src_index' = IF pc' = pc THEN src_index + 1 ELSE 1
        /\ UNCHANGED << configVars, caller, include_weekly, environ, min_score, filtered,
                        relevant, html, text, send_calls, sent, error_log, propagated,
                        keywords, category, called >>

\* one turn of the loop over DAILY_SOURCES
FetchDaily ==
    /\ pc = "daily"
    /\ \E feed \in Feeds :
         Fetched(DAILY_SOURCES[src_index], feed,
                 Get(SETTINGS.lookback_hours, DEFAULT_LOOKBACK_HOURS))

\* one turn of the loop over WEEKLY_SOURCES
FetchWeekly ==
    /\ pc = "weekly"
    /\ \E feed \in Feeds : Fetched(WEEKLY_SOURCES[src_index], feed, WEEKLY_LOOKBACK_HOURS)

\* the pc after an exception reaches the caller: AINewsDigest logs and re-raises
OnExceptionContinue(where) ==
    CASE where = "fetch_all_sources" -> "html"
      [] where = "generate_html_digest" -> "text"
      [] where = "generate_text_digest" -> "send"
      [] OTHER -> "raised"

OnException(where) == "raised"

Raise(type, where) ==
    /\ pc' = OnException(where)
    /\ propagated' = [ type |-> type, from |-> where ]
    /\ error_log' = IF caller = "timer" THEN Append(error_log, "Function failed") ELSE error_log

\* lines 184-196: score, read the minimum, filter, sort, cap, return
Rank ==
    /\ pc = "score"
    /\ \E override \in EnvOverrides :
         LET scored == [ i \in DOMAIN all_articles |-> score_relevance(all_articles[i]) ]
             max_articles == Get(SETTINGS.max_articles_total, DEFAULT_MAX_ARTICLES_TOTAL)
             m == MinScore(override)
         IN  /\ m.ok
             /\ environ' = override
             /\ all_articles' = scored
             /\ min_score' = m.value
             /\ filtered' = SelectSeq(scored, LAMBDA a : a.relevance_score >= m.value)
             /\ relevant' = Cap(SortByScoreDesc(filtered'), max_articles)
    /\ called' = called \cup { "fetch_all_sources" }
    /\ pc' = IF caller = "timer" THEN "html" ELSE "returned"
    /\ UNCHANGED << configVars, caller, include_weekly, src_index, fetch_log, html, text,
                    send_calls, sent, error_log, propagated, keywords, category >>

\* line 188 raises ValueError: the override is not the text of an integer
RankRaises ==
    /\ pc = "score"
    /\ \E override \in EnvOverrides :
         /\ ~ MinScore(override).ok
         /\ environ' = override
         /\ all_articles' = [ i \in DOMAIN all_articles |-> score_relevance(all_articles[i]) ]
    /\ Raise("ValueError", "fetch_all_sources")
    /\ UNCHANGED << configVars, caller, include_weekly, src_index, fetch_log, min_score,
                    filtered, relevant, html, text, send_calls, sent, keywords, category,
                    called >>

RenderHtml ==
    /\ pc = "html"
    /\ html' = generate_html_digest(relevant)
    /\ called' = called \cup { "generate_html_digest" }
    /\ pc' = "text"
    /\ UNCHANGED << configVars, caller, include_weekly, src_index, all_articles, fetch_log,
                    environ, min_score, filtered, relevant, text, send_calls, sent,
                    error_log, propagated, keywords, category >>

\* any exception raised inside generate_html_digest
RenderHtmlRaises ==
    /\ pc = "html"
    /\ Raise("Exception", "generate_html_digest")
    /\ UNCHANGED << configVars, caller, include_weekly, src_index, all_articles, fetch_log,
                    environ, min_score, filtered, relevant, html, text, send_calls, sent,
                    keywords, category, called >>

RenderText ==
    /\ pc = "text"
    /\ text' = generate_text_digest(relevant)
    /\ called' = called \cup { "generate_text_digest" }
    /\ pc' = "send"
    /\ UNCHANGED << configVars, caller, include_weekly, src_index, all_articles, fetch_log,
                    environ, min_score, filtered, relevant, html, send_calls, sent,
                    error_log, propagated, keywords, category >>

\* any exception raised inside generate_text_digest
RenderTextRaises ==
    /\ pc = "text"
    /\ Raise("Exception", "generate_text_digest")
    /\ UNCHANGED << configVars, caller, include_weekly, src_index, all_articles, fetch_log,
                    environ, min_score, filtered, relevant, html, text, send_calls, sent,
                    keywords, category, called >>

\* send_email(html, text) returns True or False, and AINewsDigest logs which
SendEmail ==
    /\ pc = "send"
    /\ send_calls' = send_calls + 1
    /\ \E outcome \in { "sent", "not configured", "smtp failed" } :
         /\ sent' = IF outcome = "sent"
                    THEN Append(sent, [ html |-> html, text |-> text ])
                    ELSE sent
         /\ error_log' = IF outcome = "sent"
                         THEN error_log
                         ELSE error_log \o << outcome, "Failed to send daily digest." >>
    /\ called' = called \cup { "send_email" }
    /\ pc' = "done"
    /\ UNCHANGED << configVars, caller, include_weekly, src_index, all_articles, fetch_log,
                    environ, min_score, filtered, relevant, html, text, propagated,
                    keywords, category >>

\* int(os.environ.get("SMTP_PORT", "587")) raises ValueError
SendEmailRaises ==
    /\ pc = "send"
    /\ send_calls' = send_calls + 1
    /\ Raise("ValueError", "send_email")
    /\ UNCHANGED << configVars, caller, include_weekly, src_index, all_articles, fetch_log,
                    environ, min_score, filtered, relevant, html, text, sent, keywords,
                    category, called >>

Next ==
    \/ FetchDaily
    \/ FetchWeekly
    \/ Rank
    \/ RankRaises
    \/ RenderHtml
    \/ RenderHtmlRaises
    \/ RenderText
    \/ RenderTextRaises
    \/ SendEmail
    \/ SendEmailRaises

Spec == Init /\ [][Next]_vars

(***************************************************************************)
(* The two renderers called on a list of articles.                         *)
(***************************************************************************)
RenderCategories == Range(category_order) \cup { "Research" }

\* a list of scored articles; an article's link is its position in the list
DigestInputs ==
    { [ i \in DOMAIN cs |->
          [ Article(<< "a" >>, i, "source1", None, << >>) EXCEPT !.category = cs[i] ] ] :
        cs \in SeqsUpTo(RenderCategories, MaxDigest) }

InitRender ==
    /\ SETTINGS = NoSettings
    /\ DAILY_SOURCES = << >>
    /\ WEEKLY_SOURCES = << >>
    /\ RELEVANCE_KEYWORDS = << >>
    /\ CATEGORIES = << >>
    /\ all_articles = << >>
    /\ RunIdle
    /\ relevant \in DigestInputs
    /\ html = << >>
    /\ text = << >>
    /\ keywords = << >>
    /\ category = ""
    /\ called = { }

CallHtmlDigest ==
    /\ "generate_html_digest" \notin called
    /\ html' = generate_html_digest(relevant)
    /\ called' = called \cup { "generate_html_digest" }
    /\ UNCHANGED << configVars, runVars, all_articles, relevant, text, keywords, category >>

CallTextDigest ==
    /\ "generate_text_digest" \notin called
    /\ text' = generate_text_digest(relevant)
    /\ called' = called \cup { "generate_text_digest" }
    /\ UNCHANGED << configVars, runVars, all_articles, relevant, html, keywords, category >>

NextRender == CallHtmlDigest \/ CallTextDigest

SpecRender == InitRender /\ [][NextRender]_vars

(***************************************************************************)
(* What the claims speak of, stated without the code's loops.              *)
(***************************************************************************)
\* needle occurs in hay at offset off, character by character
OccursAt(needle, hay, off) ==
    /\ off + Len(needle) <= Len(hay)
    /\ \A k \in 1 .. Len(needle) : hay[off + k] = needle[k]

Occurs(needle, hay) == \E off \in 0 .. Len(hay) : OccursAt(needle, hay, off)

\* the same, letters compared without regard to case
OccursAtCI(needle, hay, off) ==
    /\ off + Len(needle) <= Len(hay)
    /\ \A k \in 1 .. Len(needle) : LowerChar(hay[off + k]) = LowerChar(needle[k])

OccursCI(needle, hay) == \E off \in 0 .. Len(hay) : OccursAtCI(needle, hay, off)

RECURSIVE SumWeights(_)
SumWeights(idx) ==
    IF idx = { } THEN 0
    ELSE LET k == CHOOSE k \in idx : TRUE
         IN  RELEVANCE_KEYWORDS[k].weight + SumWeights(idx \ { k })

\* configured keywords occurring in title + " " + summary, and in the title
TextMatches(a) ==
    { k \in DOMAIN RELEVANCE_KEYWORDS :
        OccursCI(RELEVANCE_KEYWORDS[k].keyword, a.title \o << " " >> \o a.summary) }

TitleMatches(a) ==
    { k \in DOMAIN RELEVANCE_KEYWORDS : OccursCI(RELEVANCE_KEYWORDS[k].keyword, a.title) }

ConfiguredKeywords == [ k \in DOMAIN RELEVANCE_KEYWORDS |-> RELEVANCE_KEYWORDS[k].keyword ]

\* C2: a scored article's relevance_score is the sum of the weights of the
\* configured keywords occurring (case-insensitively) in title + " " + summary
\* plus 0.5 times the sum of the weights of those occurring in the title; its
\* matched_keywords are the keywords of the first sum in configuration order;
\* two articles with the same title and summary get the same score and list.
C2_ScoreIsWeightedSum ==
    /\ \A i \in called :
         LET a == all_articles[i]
         IN  /\ a.relevance_score = 2 * SumWeights(TextMatches(a)) + SumWeights(TitleMatches(a))
             /\ a.matched_keywords =
                  SelectSeq(ConfiguredKeywords,
                            LAMBDA kw : OccursCI(kw, a.title \o << " " >> \o a.summary))
    /\ \A i \in called : \A j \in called :
         (/\ all_articles[i].title = all_articles[j].title
          /\ all_articles[i].summary = all_articles[j].summary)
         => /\ all_articles[i].relevance_score = all_articles[j].relevance_score
            /\ all_articles[i].matched_keywords = all_articles[j].matched_keywords

\* a scored article whose title matches a keyword written in the other case,
\* with a second keyword matching the full text only
C2_Witness ==
    \E i \in called :
        LET a == all_articles[i]
        IN  /\ TitleMatches(a) # { }
            /\ TextMatches(a) \ TitleMatches(a) # { }
            /\ \E k \in TitleMatches(a) : ~ Occurs(RELEVANCE_KEYWORDS[k].keyword, a.title)
            /\ a.relevance_score > 0

AllScored == called = DOMAIN all_articles

\* C10 as stated: if B's text matches at least as many configured keywords
\* as A's, then B's relevance_score is at least A's.
C10_MonotoneInCount ==
    AllScored =>
        \A i \in called : \A j \in called :
            Cardinality(TextMatches(all_articles[j])) >= Cardinality(TextMatches(all_articles[i]))
            => all_articles[j].relevance_score >= all_articles[i].relevance_score

NonNegativeWeights == \A k \in DOMAIN RELEVANCE_KEYWORDS : RELEVANCE_KEYWORDS[k].weight >= 0

\* C10 amended: with no negative weight, if every configured keyword that
\* matches A's text matches B's text and every one that matches A's title
\* matches B's title, then B's relevance_score is at least A's.
C10_MonotoneInMatchedSet ==
    (AllScored /\ NonNegativeWeights) =>
        \A i \in called : \A j \in called :
            (/\ TextMatches(all_articles[i]) \subseteq TextMatches(all_articles[j])
             /\ TitleMatches(all_articles[i]) \subseteq TitleMatches(all_articles[j]))
            => all_articles[j].relevance_score >= all_articles[i].relevance_score

\* both scored, B matching strictly more keywords than A and scoring higher
C10_Witness ==
    /\ AllScored
    /\ NonNegativeWeights
    /\ \E i \in called : \E j \in called :
         /\ TextMatches(all_articles[i]) # { }
         /\ TextMatches(all_articles[i]) \subseteq TextMatches(all_articles[j])
         /\ TextMatches(all_articles[i]) # TextMatches(all_articles[j])
         /\ TitleMatches(all_articles[i]) \subseteq TitleMatches(all_articles[j])
         /\ all_articles[j].relevance_score > all_articles[i].relevance_score

(***************************************************************************)
(* categorize                                                              *)
(***************************************************************************)
Categorized == "categorize" \in called

\* matched keywords that contain, without regard to case, a fragment of category i
CountCI(i) ==
    Cardinality({ k \in DOMAIN keywords :
                    \E f \in DOMAIN CATEGORIES[i].keywords :
                        OccursCI(CATEGORIES[i].keywords[f], keywords[k]) })

\* matched keywords whose lower-cased text contains a fragment of category i as
\* the fragment is written in the configuration
CountAsWritten(i) ==
    Cardinality({ k \in DOMAIN keywords :
                    \E f \in DOMAIN CATEGORIES[i].keywords :
                        \E off \in 0 .. Len(keywords[k]) :
                            /\ off + Len(CATEGORIES[i].keywords[f]) <= Len(keywords[k])
                            /\ \A n \in 1 .. Len(CATEGORIES[i].keywords[f]) :
                                 LowerChar(keywords[k][off + n]) = CATEGORIES[i].keywords[f][n] })

\* the category the claim names, for counts[i] the count of category i
IsFirstHighest(result, counts) ==
    IF \A i \in DOMAIN CATEGORIES : counts[i] = 0
    THEN result = "General"
    ELSE \E i \in DOMAIN CATEGORIES :
            /\ result = CATEGORIES[i].category
            /\ \A j \in DOMAIN CATEGORIES : counts[j] <= counts[i]
            /\ \A j \in DOMAIN CATEGORIES : j < i => counts[j] < counts[i]

\* C8 as stated: categorize returns the first category with the highest count
\* of matched keywords containing, case-insensitively, one of its fragments,
\* and "General" when every count is 0.
C8_FirstHighestCaseInsensitive == Categorized => IsFirstHighest(category, [ i \in DOMAIN CATEGORIES |-> CountCI(i) ])

\* What categorize computes: the count of a category is the number of matched
\* keywords whose lower-cased text contains one of its fragments exactly as
\* configured (a fragment with an upper-case letter matches nothing); the first
\* category in configuration order with the highest count is returned, and
\* "General" when every count is 0.
CategorizeFirstHighestAsWritten == Categorized => IsFirstHighest(category, [ i \in DOMAIN CATEGORIES |-> CountAsWritten(i) ])

\* two categories share the highest, positive, count
CategorizeTie ==
    /\ Categorized
    /\ \E i \in DOMAIN CATEGORIES : \E j \in DOMAIN CATEGORIES :
         /\ i < j
         /\ CountAsWritten(i) > 0
         /\ CountAsWritten(i) = CountAsWritten(j)
         /\ \A n \in DOMAIN CATEGORIES : CountAsWritten(n) <= CountAsWritten(i)
         /\ category = CATEGORIES[i].category

(***************************************************************************)
(* fetch_all_sources                                                       *)
(***************************************************************************)
Returned == "fetch_all_sources" \in called

\* the sources fetch_all_sources is to fetch, in the order it fetches them
FetchOrder == DAILY_SOURCES \o (IF include_weekly THEN WEEKLY_SOURCES ELSE << >>)

SourcePosition(source_name) == CHOOSE i \in DOMAIN FetchOrder : FetchOrder[i] = source_name

\* a comes before b in the pool: an earlier source, or the same source and an
\* earlier feed entry
Before(a, b) ==
    \/ SourcePosition(a.source) < SourcePosition(b.source)
    \/ a.source = b.source /\ a.link < b.link

FailedSources == { fetch_log[i].source : i \in { j \in DOMAIN fetch_log : fetch_log[j].failed } }

\* C1: a source whose fetch or parse fails contributes zero articles, every
\* later source is still fetched, and the result is made of the articles of
\* the succeeding sources that pass the threshold and the cap.
C1_FailingSourceContributesNothing ==
    /\ \A i \in DOMAIN fetch_log :
         fetch_log[i].failed =>
             /\ fetch_log[i].count = 0
             /\ \A k \in DOMAIN all_articles : all_articles[k].source # fetch_log[i].source
    /\ pc \notin { "daily", "weekly" } =>
         [ i \in DOMAIN fetch_log |-> fetch_log[i].source ] = FetchOrder
    /\ Returned =>
         relevant = Cap(SortByScoreDesc(
                          SelectSeq(filtered, LAMBDA a : a.source \notin FailedSources)),
                        Get(SETTINGS.max_articles_total, DEFAULT_MAX_ARTICLES_TOTAL))

\* the number a decimal text such as "3" or "2.5" writes, in halves
DecimalHalves(s) ==
    LET dots == { i \in DOMAIN s : s[i] = "." }
        whole == IF dots = { } THEN s ELSE SubSeq(s, 1, (CHOOSE i \in dots : TRUE) - 1)
        half == dots # { } /\ s[Len(s)] = "5"
    IN  2 * DigitsValue(whole, 0) + (IF half THEN 1 ELSE 0)

\* the effective minimum the claim names: the override when present, else the
\* configured minimum when present, else 5
ClaimedMinimum ==
    IF environ.present THEN DecimalHalves(environ.value)
    ELSE Get(SETTINGS.min_relevance_score, 2 * DEFAULT_MIN_RELEVANCE_SCORE)

\* C3: the articles that survive the filter are exactly the collected articles
\* whose relevance_score is at least the effective minimum, whole or not.
C3_FilterAtEffectiveMinimum ==
    Returned =>
        filtered = SelectSeq(all_articles, LAMBDA a : a.relevance_score >= ClaimedMinimum)

ConfiguredCap == Get(SETTINGS.max_articles_total, DEFAULT_MAX_ARTICLES_TOTAL)

\* C4 as stated: for every configured max_articles_total the returned list is
\* no longer than max_articles_total.
C4_LengthAtMostAnyCap == Returned => Len(relevant) <= ConfiguredCap

\* C4 amended: for every configured max_articles_total that is not negative
\* (25 when not configured) the returned list is no longer than it.
C4_LengthAtMostCap == (Returned /\ ConfiguredCap >= 0) => Len(relevant) <= ConfiguredCap

\* more articles passed the filter than the cap lets through
C4_Witness ==
    /\ Returned
    /\ ConfiguredCap > 0
    /\ Len(filtered) > ConfiguredCap
    /\ Len(relevant) = ConfiguredCap

\* C5: the returned list is in non-increasing relevance_score order, and two
\* returned articles of equal score are in their pre-sort order: the order the
\* sources are fetched in, and feed-entry order within one source.
C5_SortedDescendingStable ==
    Returned =>
        \A i \in DOMAIN relevant : \A j \in DOMAIN relevant :
            i < j =>
                /\ relevant[i].relevance_score >= relevant[j].relevance_score
                /\ relevant[i].relevance_score = relevant[j].relevance_score
                   => Before(relevant[i], relevant[j])

\* the sort moved a later article ahead of an earlier one of lower score, and
\* kept two articles of equal score from different sources in their order
C5_Witness ==
    /\ Returned
    /\ \E i \in DOMAIN relevant : \E j \in DOMAIN relevant :
         /\ i < j
         /\ relevant[i].relevance_score > relevant[j].relevance_score
         /\ Before(relevant[j], relevant[i])
    /\ \E i \in DOMAIN relevant : \E j \in DOMAIN relevant :
         /\ i < j
         /\ relevant[i].relevance_score = relevant[j].relevance_score
         /\ relevant[i].source # relevant[j].source

(***************************************************************************)
(* AINewsDigest                                                            *)
(***************************************************************************)
BeforeSend == { "fetch_all_sources", "generate_html_digest", "generate_text_digest" }

\* C7: in a run of AINewsDigest send_email is called at most once and only
\* after fetch_all_sources, generate_html_digest and generate_text_digest have
\* completed; when one of the three raises, send_email is not called, the
\* exception is logged and leaves the entry point, and nothing is delivered;
\* what is delivered is the two complete digests.
C7_SendOnlyAfterCompleteDigest ==
    caller = "timer" =>
        /\ send_calls <= 1
        /\ send_calls >= 1 => BeforeSend \subseteq called
        /\ propagated.from \in BeforeSend =>
             /\ send_calls = 0
             /\ sent = << >>
             /\ pc = "raised"
             /\ error_log # << >>
             /\ error_log[Len(error_log)] = "Function failed"
        /\ \A n \in DOMAIN sent :
             /\ sent[n].html = generate_html_digest(relevant)
             /\ sent[n].text = generate_text_digest(relevant)

\* a digest of at least one article was handed to the mail server
C7_Witness ==
    /\ caller = "timer"
    /\ pc = "done"
    /\ send_calls = 1
    /\ Len(sent) = 1
    /\ relevant # << >>

(***************************************************************************)
(* generate_html_digest, generate_text_digest                              *)
(***************************************************************************)
Rendered == { "generate_html_digest", "generate_text_digest" } \subseteq called

HasItem(out, kind) == \E i \in DOMAIN out : out[i].kind = kind

\* C6: for an empty list both digests are non-empty and carry an explicit
\* "no articles found" message.
C6_EmptyDigestSaysNoArticles ==
    (Rendered /\ relevant = << >>) =>
        /\ html # << >> /\ HasItem(html, "no-articles")
        /\ text # << >> /\ HasItem(text, "no-articles")

OrderIndex(c) ==
    IF \E i \in DOMAIN category_order : category_order[i] = c
    THEN CHOOSE i \in DOMAIN category_order : category_order[i] = c
    ELSE 0

\* the position in the input of the article an item shows
InputPosition(item) ==
    CHOOSE k \in DOMAIN relevant :
        relevant[k].link = item.link /\ relevant[k].source = item.source

\* the last heading before position p
HeadingBefore(out, p) ==
    LET hs == { h \in 1 .. p : out[h].kind = "h2" }
    IN  IF hs = { } THEN "" ELSE out[CHOOSE h \in hs : \A g \in hs : g <= h].category

GroupedInFixedOrder(out) ==
    LET arts == { p \in DOMAIN out : out[p].kind = "article" }
        heads == { p \in DOMAIN out : out[p].kind = "h2" }
    IN  /\ \A p \in heads : \A q \in heads :
              p < q => 0 < OrderIndex(out[p].category)
                       /\ OrderIndex(out[p].category) < OrderIndex(out[q].category)
        /\ \A p \in arts : HeadingBefore(out, p) = out[p].category
        /\ \A p \in arts : \A q \in arts :
              (p < q /\ out[p].category = out[q].category)
              => InputPosition(out[p]) < InputPosition(out[q])
        /\ \A k \in DOMAIN relevant :
              Cardinality({ p \in arts : out[p].link = relevant[k].link
                                         /\ out[p].source = relevant[k].source
                                         /\ out[p].category = relevant[k].category })
              = (IF OrderIndex(relevant[k].category) # 0 THEN 1 ELSE 0)
        /\ Cardinality(arts)
           = Cardinality({ k \in DOMAIN relevant : OrderIndex(relevant[k].category) # 0 })

\* C9: for a non-empty list both digests emit the category groups in the
\* fixed order, the articles of one group in their input order, every article
\* of a listed category once and no article of an unlisted category.
C9_GroupsInFixedOrder ==
    (Rendered /\ relevant # << >>) => GroupedInFixedOrder(html) /\ GroupedInFixedOrder(text)

\* the input holds an article of an unlisted category, two articles of one
\* listed category, or a later category ahead of an earlier one
C9_Witness ==
    /\ Rendered
    /\ Len(relevant) >= 3
    /\ \E i \in DOMAIN relevant : OrderIndex(relevant[i].category) = 0
    /\ \E i \in DOMAIN relevant : \E j \in DOMAIN relevant :
         /\ i < j
         /\ OrderIndex(relevant[j].category) # 0
         /\ OrderIndex(relevant[i].category) > OrderIndex(relevant[j].category)

====
